---- MODULE Spec2Model ----
(***************************************************************************)
(* Settings loader (packages/core settings module, src/unnamed/part_000)   *)
(* and API-key gate (packages/client-direct/src/middlewares/auth.ts).      *)
(*                                                                         *)
(* A JavaScript string is a sequence of characters; a character is a       *)
(* one-letter TLA+ string, or an atom standing for a fixed run of letters  *)
(* that holds neither "/" nor "." on its own (".env" is the file name,     *)
(* "__namespaced_" the reserved prefix, "constructor" a property every     *)
(* object literal inherits from Object.prototype).  The JavaScript values  *)
(* undefined and null are the two sequences Undefined and Null, which no   *)
(* string equals.                                                          *)
(***************************************************************************)
EXTENDS Integers, Sequences, FiniteSets, TLC

VARIABLES
    ctx,            \* "host" | "sandbox": what isBrowser() answers in this process
    cwd,            \* process.cwd(), an absolute path
    files,          \* the file system: directory |-> parsed content of its .env file
    startDir,       \* findNearestEnvFile: the argument
    currentDir,     \* findNearestEnvFile: the local currentDir
    wpc,            \* findNearestEnvFile: position ("call", "loop", "done")
    result,         \* findNearestEnvFile: the returned value
    steps,          \* findNearestEnvFile: loop iterations taken so far
    processEnv,     \* process.env: the entries [k, v] in enumeration order
    log,            \* authMiddleware: one record per request handled so far
    heap,           \* the Settings objects made so far: id |-> entries [k, v]
    environmentSettings, \* the module variable: the id of the object it refers to
    settings,       \* the exported singleton: a reference (to process.env or an object)
    pc,             \* the settings module: "import" until line 178 ran, then "ready"
    namespacedSettings, \* loadEnvConfig: the local of line 139, as of the last call
    ctorProps,      \* the properties set on the global function Object so far
    ret,            \* the value the last call of an exported function returned
    lastCall,       \* the exported function called last
    loads           \* calls of loadEnvConfig in host context so far

vars == <<ctx, cwd, files, startDir, currentDir, wpc, result, steps, processEnv, log,
          heap, environmentSettings, settings, pc, namespacedSettings, ctorProps,
          ret, lastCall, loads>>

world == <<ctx, cwd, files>>
walkVars == <<startDir, currentDir, wpc, result, steps>>
settingsVars == <<heap, environmentSettings, settings, pc, namespacedSettings, ctorProps,
                  ret, lastCall, loads>>

Undefined == <<"<undefined>">>
Null == <<"<null>">>

\* a reference to process.env, and one to the Settings object with a given id
EnvRef == [t |-> "env", id |-> 0]
ObjRef(id) == [t |-> "obj", id |-> id]
NoReturn == [op |-> "none"]

\* the parts of the state a specification does not exercise
WalkIdle ==
    /\ startDir = <<>>
    /\ currentDir = <<>>
    /\ wpc = "done"
    /\ result = Null
    /\ steps = 0

SettingsIdle ==
    /\ heap = (0 :> <<>>)
    /\ environmentSettings = 0
    /\ settings = Undefined
    /\ pc = "import"
    /\ namespacedSettings = <<>>
    /\ ctorProps = <<>>
    /\ ret = NoReturn
    /\ lastCall = "none"
    /\ loads = 0

-----------------------------------------------------------------------------
(* Bounds *)

MaxPathLen == 4     \* characters of a starting directory
MaxDepth == 2       \* depth of the directory tree
MaxRequests == 3    \* requests the gate handles in one run
MaxEnv == 2         \* entries of the ambient environment and the .env file together
MaxLoads == 2       \* calls of loadEnvConfig in one run
MaxInjected == 1    \* entries of a Settings object given to configureSettings

\* loop iterations observed before the model stops counting
MaxSteps == MaxPathLen + 3

-----------------------------------------------------------------------------
(* Strings *)

SeqsUpTo(S, n) == UNION {[1..k -> S] : k \in 0..n}

RECURSIVE Split(_, _)
\* String.prototype.split(sep): the pieces between the separators, at least one
Split(s, sep) ==
    IF \A i \in 1..Len(s) : s[i] # sep
    THEN <<s>>
    ELSE LET i == CHOOSE i \in 1..Len(s) : s[i] = sep /\ \A j \in 1..(i-1) : s[j] # sep
         IN <<SubSeq(s, 1, i-1)>> \o Split(SubSeq(s, i+1, Len(s)), sep)

RECURSIVE Join(_, _)
\* Array.prototype.join(sep)
Join(segs, sep) ==
    IF segs = <<>> THEN <<>>
    ELSE IF Len(segs) = 1 THEN segs[1]
    ELSE segs[1] \o <<sep>> \o Join(Tail(segs), sep)

-----------------------------------------------------------------------------
(* node:path, POSIX flavour *)

\* path.parse(p).root
ParseRoot(p) == IF Len(p) > 0 /\ p[1] = "/" THEN <<"/">> ELSE <<>>

RECURSIVE DirEnd(_, _, _)
\* path.dirname's scan from the end: the position of the slash that ends the
\* directory part, 0 when there is none (positions count from 1)
DirEnd(p, i, matchedSlash) ==
    IF i < 2 THEN 0
    ELSE IF p[i] = "/"
         THEN IF ~matchedSlash THEN i ELSE DirEnd(p, i-1, matchedSlash)
         ELSE DirEnd(p, i-1, FALSE)

\* path.dirname(p)
Dirname(p) ==
    IF Len(p) = 0 THEN <<".">>
    ELSE LET hasRoot == p[1] = "/"
             end == DirEnd(p, Len(p), TRUE)
         IN IF end = 0 THEN (IF hasRoot THEN <<"/">> ELSE <<".">>)
            ELSE IF hasRoot /\ end = 2 THEN <<"/", "/">>
            ELSE SubSeq(p, 1, end-1)

RECURSIVE NormalizeString(_, _, _)
\* path's normalizeString, segment by segment: "" and "." are dropped, ".."
\* removes the segment before it, or stays when nothing is left to remove and
\* the path is relative
NormalizeString(segs, acc, allowAboveRoot) ==
    IF segs = <<>> THEN acc
    ELSE LET s == Head(segs)
             rest == Tail(segs)
         IN IF s = <<>> \/ s = <<".">>
            THEN NormalizeString(rest, acc, allowAboveRoot)
            ELSE IF s = <<".", ".">>
            THEN IF acc # <<>> /\ acc[Len(acc)] # <<".", ".">>
                 THEN NormalizeString(rest, SubSeq(acc, 1, Len(acc)-1), allowAboveRoot)
                 ELSE IF allowAboveRoot
                      THEN NormalizeString(rest, Append(acc, s), allowAboveRoot)
                      ELSE NormalizeString(rest, acc, allowAboveRoot)
            ELSE NormalizeString(rest, Append(acc, s), allowAboveRoot)

\* path.normalize(p)
Normalize(p) ==
    IF Len(p) = 0 THEN <<".">>
    ELSE LET isAbsolute == p[1] = "/"
             trailingSeparator == p[Len(p)] = "/"
             body == Join(NormalizeString(Split(p, "/"), <<>>, ~isAbsolute), "/")
         IN IF Len(body) = 0
            THEN (IF isAbsolute THEN <<"/">>
                  ELSE IF trailingSeparator THEN <<".", "/">> ELSE <<".">>)
            ELSE (IF isAbsolute THEN <<"/">> ELSE <<>>)
                 \o body
                 \o (IF trailingSeparator THEN <<"/">> ELSE <<>>)

\* path.join(a, b): the non-empty arguments joined by "/", then normalized
PathJoin(a, b) ==
    IF Len(a) = 0 /\ Len(b) = 0 THEN <<".">>
    ELSE IF Len(a) = 0 THEN Normalize(b)
    ELSE IF Len(b) = 0 THEN Normalize(a)
    ELSE Normalize(a \o <<"/">> \o b)

EnvName == <<".env">>

-----------------------------------------------------------------------------
(* node:fs over the modelled file system *)

\* The directory a path names, as the list of its components from the root;
\* a relative path is taken from the working directory
ResolveSegs(p) ==
    IF Len(p) > 0 /\ p[1] = "/"
    THEN NormalizeString(Split(p, "/"), <<>>, FALSE)
    ELSE NormalizeString(Split(cwd, "/") \o Split(p, "/"), <<>>, FALSE)

\* fs.existsSync(p), for the path of a .env file
ExistsSync(p) ==
    LET r == ResolveSegs(p)
    IN /\ Len(r) >= 1
       /\ r[Len(r)] = EnvName
       /\ SubSeq(r, 1, Len(r)-1) \in DOMAIN files

\* The absolute path of a directory given by its components
DirPath(segs) == <<"/">> \o Join(segs, "/")

-----------------------------------------------------------------------------
(* Objects with string keys: process.env and Settings objects *)

HasKey(env, k) == \E i \in 1..Len(env) : env[i].k = k

\* env[k]: undefined for a key that is not there
Get(env, k) ==
    IF HasKey(env, k)
    THEN env[CHOOSE i \in 1..Len(env) : env[i].k = k].v
    ELSE Undefined

\* env[k] = v: an existing key keeps its place, a new one goes last
Set(env, k, v) ==
    IF HasKey(env, k)
    THEN [i \in 1..Len(env) |-> IF env[i].k = k THEN [k |-> k, v |-> v] ELSE env[i]]
    ELSE Append(env, [k |-> k, v |-> v])

\* delete env[k]
Delete(env, k) == SelectSeq(env, LAMBDA e : e.k # k)

\* ToBoolean of a string or undefined
Truthy(v) == v # Undefined /\ v # Null /\ v # <<>>

-----------------------------------------------------------------------------
(* authMiddleware, auth.ts lines 4-10 *)

ApiKeyName == <<"API_KEY">>
StatusUnauthorized == 401
NoResponse == [status |-> 0, body |-> ""]

\* the expected value is the one of the first request handled, kept since
ExpectedApiKeyCached(env) ==
    IF log # <<>> THEN log[1].apiKey ELSE Get(env, ApiKeyName)

\* line 6: process.env.API_KEY
ExpectedApiKey(env) == Get(env, ApiKeyName)

\* the header is only compared, a missing one is not looked for
RejectsUnlessEqual(apiKey, env) == apiKey # ExpectedApiKey(env)

\* line 6: the condition of the 401 branch
Rejects(apiKey, env) == ~Truthy(apiKey) \/ apiKey # ExpectedApiKey(env)

\* a request with the right key is not handed on: next() is left out
ResponseWithoutNext(req, env) ==
    IF Rejects(req.apiKeyHeader, env)
    THEN [res |-> [status |-> StatusUnauthorized, body |-> "Unauthorized"],
          nextCalls |-> 0, req |-> req]
    ELSE [res |-> NoResponse, nextCalls |-> 0, req |-> req]

\* lines 5-9: what the handler does with a request: the response it sends,
\* how often it calls next(), and the request as it leaves it
Response(req, env) ==
    LET apiKey == req.apiKeyHeader
    IN IF Rejects(apiKey, env)
       THEN [res |-> [status |-> StatusUnauthorized, body |-> "Unauthorized"],
             nextCalls |-> 0, req |-> req]
       ELSE [res |-> NoResponse, nextCalls |-> 1, req |-> req]

HeaderValues == {Undefined, <<>>, <<"k">>, <<"j">>}
ApiKeyValues == {<<>>, <<"k">>}
Requests == [apiKeyHeader : HeaderValues]

\* one request through the gate
AuthMiddleware ==
    /\ Len(log) < MaxRequests
    /\ \E req \in Requests :
        LET out == Response(req, processEnv)
        IN log' = Append(log, [req |-> req,
                               apiKey |-> Get(processEnv, ApiKeyName),
                               res |-> out.res,
                               nextCalls |-> out.nextCalls,
                               reqAfter |-> out.req])
    /\ UNCHANGED <<processEnv, world, walkVars, settingsVars>>

\* the process configuration changes between requests: API_KEY is set
SetApiKey ==
    /\ \E v \in ApiKeyValues :
        /\ Get(processEnv, ApiKeyName) # v
        /\ processEnv' = Set(processEnv, ApiKeyName, v)
    /\ UNCHANGED <<log, world, walkVars, settingsVars>>

\* ... or removed
UnsetApiKey ==
    /\ HasKey(processEnv, ApiKeyName)
    /\ processEnv' = Delete(processEnv, ApiKeyName)
    /\ UNCHANGED <<log, world, walkVars, settingsVars>>

InitGate ==
    /\ ctx = "host"
    /\ cwd = <<"/">>
    /\ files = <<>>
    /\ WalkIdle
    /\ SettingsIdle
    /\ processEnv \in {<<>>} \cup {<<[k |-> ApiKeyName, v |-> v]>> : v \in ApiKeyValues}
    /\ log = <<>>

NextGate ==
    \/ AuthMiddleware
    \/ SetApiKey
    \/ UnsetApiKey

SpecGate == InitGate /\ [][NextGate]_vars

-----------------------------------------------------------------------------
(* Properties of authMiddleware *)

Rejected(e) ==
    /\ e.res = [status |-> 401, body |-> "Unauthorized"]
    /\ e.nextCalls = 0

PassedOn(e) ==
    /\ e.res = NoResponse
    /\ e.nextCalls = 1
    /\ e.reqAfter = e.req

\* C1: a request whose x-api-key header is missing, or differs from the value
\* API_KEY has when it is handled (API_KEY not configured included), gets
\* status 401 with the body "Unauthorized", and next() is not called.
C1_MismatchRejected ==
    \A i \in 1..Len(log) :
        (log[i].req.apiKeyHeader = Undefined \/ log[i].req.apiKeyHeader # log[i].apiKey)
            => Rejected(log[i])

\* C1 witness: a missing header, a wrong header, and a header while API_KEY is
\* not configured have all been handled
C1_Witness ==
    /\ \E i \in 1..Len(log) : log[i].req.apiKeyHeader = Undefined
    /\ \E i \in 1..Len(log) :
        log[i].req.apiKeyHeader = <<"j">> /\ log[i].apiKey = <<"k">>
    /\ \E i \in 1..Len(log) :
        log[i].req.apiKeyHeader = <<"k">> /\ log[i].apiKey = Undefined

\* C2 as claimed: a request whose header is present and equal to API_KEY, the
\* empty string included, is passed on: next() called once, no response sent,
\* the request unmodified.
C2_EqualPassedOn ==
    \A i \in 1..Len(log) :
        (log[i].req.apiKeyHeader # Undefined /\ log[i].req.apiKeyHeader = log[i].apiKey)
            => PassedOn(log[i])

\* C2 as amended: a request whose header is present, not empty, and equal to
\* API_KEY is passed on: next() called once, no response sent, the request
\* unmodified.
C2_NonEmptyEqualPassedOn ==
    \A i \in 1..Len(log) :
        (/\ log[i].req.apiKeyHeader # Undefined
         /\ log[i].req.apiKeyHeader # <<>>
         /\ log[i].req.apiKeyHeader = log[i].apiKey)
            => PassedOn(log[i])

\* C2 witness: a request with the configured key has been handled
C2_Witness ==
    \E i \in 1..Len(log) :
        log[i].req.apiKeyHeader = <<"k">> /\ log[i].apiKey = <<"k">> /\ log[i].nextCalls = 1

\* C8: the outcome of a request is decided by its header and the value
\* API_KEY has in the state in which it is handled, whatever was handled or
\* configured before: it is passed on when the header is not empty and equals
\* that value, and answered 401 otherwise; the requests handled earlier keep
\* their outcome, and handling a request changes nothing of process.env.
C8_ReadAtRequestTime ==
    [][Len(log') = Len(log) + 1 =>
        LET e == log'[Len(log')]
            matches == /\ Truthy(e.req.apiKeyHeader)
                       /\ e.req.apiKeyHeader = Get(processEnv, ApiKeyName)
        IN /\ processEnv' = processEnv
           /\ SubSeq(log', 1, Len(log)) = log
           /\ IF matches THEN PassedOn(e) ELSE Rejected(e)]_vars

\* C8 witness: the same header was rejected under one API_KEY and passed on
\* under another, the rejection being the later of the two
C8_Witness ==
    \E i, j \in 1..Len(log) :
        /\ i < j
        /\ log[i].req = log[j].req
        /\ log[i].nextCalls = 1
        /\ log[j].nextCalls = 0

-----------------------------------------------------------------------------
(* isBrowser, lines 74-78 *)

isBrowser == ctx = "sandbox"

-----------------------------------------------------------------------------
(* findNearestEnvFile, lines 86-106, one loop iteration per step *)

\* line 92: the loop condition
AtRoot(dir) == dir = ParseRoot(dir)

\* line 93
EnvPath(dir) == PathJoin(dir, EnvName)

\* line 100
ParentDir(dir) == Dirname(dir)

\* the root is not looked at: the walk gives up once the loop ends
RootEnvResultUnchecked(dir) == Null

\* lines 104-105
RootEnvResult(dir) ==
    LET rootEnvPath == PathJoin(ParseRoot(dir), EnvName)
    IN IF ExistsSync(rootEnvPath) THEN rootEnvPath ELSE Null


\* line 87: the sandbox answers null at once
FindInBrowser ==
    /\ wpc = "call"
    /\ isBrowser
    /\ wpc' = "done"
    /\ result' = Null
    /\ UNCHANGED <<startDir, currentDir, steps, world, processEnv, log, settingsVars>>

\* line 89
FindEnter ==
    /\ wpc = "call"
    /\ ~isBrowser
    /\ currentDir' = startDir
    /\ wpc' = "loop"
    /\ UNCHANGED <<startDir, result, steps, world, processEnv, log, settingsVars>>

\* lines 92-97: an iteration that finds the file
FindHere ==
    /\ wpc = "loop"
    /\ ~AtRoot(currentDir)
    /\ ExistsSync(EnvPath(currentDir))
    /\ result' = EnvPath(currentDir)
    /\ wpc' = "done"
    /\ UNCHANGED <<startDir, currentDir, steps, world, processEnv, log, settingsVars>>

\* lines 92-100: an iteration that moves up
FindUp ==
    /\ wpc = "loop"
    /\ ~AtRoot(currentDir)
    /\ ~ExistsSync(EnvPath(currentDir))
    /\ steps < MaxSteps
    /\ currentDir' = ParentDir(currentDir)
    /\ steps' = steps + 1
    /\ UNCHANGED <<startDir, wpc, result, world, processEnv, log, settingsVars>>

\* lines 92, 103-105: the loop ends at the root, which is checked too
FindAtRoot ==
    /\ wpc = "loop"
    /\ AtRoot(currentDir)
    /\ result' = RootEnvResult(currentDir)
    /\ wpc' = "done"
    /\ UNCHANGED <<startDir, currentDir, steps, world, processEnv, log, settingsVars>>

-----------------------------------------------------------------------------
(* The walk's inputs *)

PathChars == {"/", ".", "a"}
DirNames == {<<"a">>}
Dirs == SeqsUpTo(DirNames, MaxDepth)
StartDirs == SeqsUpTo(PathChars, MaxPathLen)

InitWalk ==
    /\ ctx \in {"host", "sandbox"}
    /\ \E d \in Dirs : cwd = DirPath(d)
    /\ \E ds \in SUBSET Dirs : files = [d \in ds |-> <<>>]
    /\ startDir \in StartDirs
    /\ currentDir = <<>>
    /\ wpc = "call"
    /\ result = Null
    /\ steps = 0
    /\ processEnv = <<>>
    /\ log = <<>>
    /\ SettingsIdle

NextWalk ==
    \/ FindInBrowser
    \/ FindEnter
    \/ FindHere
    \/ FindUp
    \/ FindAtRoot

SpecWalk == InitWalk /\ [][NextWalk]_vars

-----------------------------------------------------------------------------
(* Properties of findNearestEnvFile *)

RECURSIVE DirN(_, _)
\* the k-th directory of the chain startDir, parent(startDir), ...
DirN(p, k) == IF k = 0 THEN p ELSE DirN(Dirname(p), k-1)

\* the directory named by path p holds a .env file
HoldsEnv(p) == ResolveSegs(p) \in DOMAIN files

\* p is "/" or "/x/y/..." with no empty, "." or ".." component
IsCanonicalAbs(p) ==
    /\ Len(p) >= 1
    /\ p[1] = "/"
    /\ \A i \in 1..Len(p) : p[i] # "."
    /\ \A i \in 2..Len(p) : p[i] = "/" => (p[i-1] # "/" /\ i < Len(p))

Components(p) == IF Len(p) = 1 THEN <<>> ELSE Split(Tail(p), "/")

EnvFileIn(segs) ==
    IF segs = <<>> THEN <<"/">> \o EnvName ELSE DirPath(segs) \o <<"/">> \o EnvName

C9_WalkTerminates ==
    [][steps' = steps + 1 =>
        (currentDir' # currentDir /\ steps' <= Len(startDir))]_vars

-----------------------------------------------------------------------------
(* What loadEnvConfig calls *)

RECURSIVE FindNearestEnvFile(_)
\* findNearestEnvFile run to its return in host context, lines 89-105
FindNearestEnvFile(dir) ==
    IF AtRoot(dir) THEN RootEnvResult(dir)
    ELSE IF ExistsSync(EnvPath(dir)) THEN EnvPath(dir)
    ELSE FindNearestEnvFile(ParentDir(dir))

RECURSIVE Populate(_, _)
\* dotenv: a key of the file is added unless process.env has it already
Populate(env, parsed) ==
    IF parsed = <<>> THEN env
    ELSE Populate(IF HasKey(env, Head(parsed).k) THEN env ELSE Append(env, Head(parsed)),
                  Tail(parsed))

\* line 132: dotenv's config; with no path it looks for .env in the working
\* directory, where findNearestEnvFile found none
DotenvConfig(env, envPath) ==
    IF envPath = Null THEN env
    ELSE LET r == ResolveSegs(envPath)
         IN Populate(env, files[SubSeq(r, 1, Len(r)-1)])

\* The names an object literal inherits from Object.prototype, among the
\* names of the model; namespaced["constructor"] is the global function Object
InheritedNames == {<<"constructor">>}
ObjectFunction == [kind |-> "function", props |-> <<>>]
PlainObject(props) == [kind |-> "object", props |-> props]

\* the sub-key is the text between the first dot and the second
ParseEntryFirstSegment(st, key, value) ==
    LET parts == Split(key, ".")
        namespace == Head(parts)
        rest == Tail(parts)
    IN IF ~Truthy(value) \/ ~Truthy(namespace) \/ Len(rest) = 0 THEN st
       ELSE [own |-> Set(st.own, namespace,
                         PlainObject(Set(IF HasKey(st.own, namespace)
                                         THEN Get(st.own, namespace).props ELSE <<>>,
                                         Head(rest), value))),
             ctor |-> st.ctor]

\* lines 196-203: one entry of the flat mapping; st.own are the properties of
\* the local namespaced so far, st.ctor those set on the function Object
ParseEntry(st, key, value) ==
    IF ~Truthy(value) THEN st
    ELSE LET parts == Split(key, ".")
             namespace == Head(parts)
             rest == Tail(parts)
         IN IF ~Truthy(namespace) \/ Len(rest) = 0 THEN st
            ELSE LET settingKey == Join(rest, ".")
                     \* namespaced[namespace] || {}
                     obj == IF HasKey(st.own, namespace) THEN Get(st.own, namespace)
                            ELSE IF namespace \in InheritedNames THEN ObjectFunction
                            ELSE PlainObject(<<>>)
                 IN IF obj.kind = "function"
                    THEN [own |-> Set(st.own, namespace, obj),
                          ctor |-> Set(st.ctor, settingKey, value)]
                    ELSE [own |-> Set(st.own, namespace,
                                      PlainObject(Set(obj.props, settingKey, value))),
                          ctor |-> st.ctor]

RECURSIVE ParseFrom(_, _, _)
ParseFrom(env, i, st) ==
    IF i > Len(env) THEN st
    ELSE ParseFrom(env, i+1, ParseEntry(st, env[i].k, env[i].v))

\* parseNamespacedSettings, lines 192-207
ParseNamespacedSettings(env, ctor) == ParseFrom(env, 1, [own |-> <<>>, ctor |-> ctor])

RECURSIVE Escape(_)
\* JSON's escapes of the two characters of the model that need one
Escape(str) ==
    IF str = <<>> THEN <<>>
    ELSE (IF Head(str) \in {"\"", "\\"} THEN <<"\\", Head(str)>> ELSE <<Head(str)>>)
         \o Escape(Tail(str))

JsonQuote(str) == <<"\"">> \o Escape(str) \o <<"\"">>

\* JSON.stringify of a value of namespaced: undefined for a function
JsonStringify(obj) ==
    IF obj.kind = "function" THEN Undefined
    ELSE <<"{">>
         \o Join([i \in 1..Len(obj.props) |->
                    JsonQuote(obj.props[i].k) \o <<":">> \o JsonQuote(obj.props[i].v)], ",")
         \o <<"}">>

\* process.env stores strings: what is assigned is converted by String()
ToEnvString(v) == IF v = Undefined THEN <<"undefined">> ELSE v

NamespacedPrefix == <<"__namespaced_">>

\* the prefix is set off from the namespace by a dot
ReservedKeyDotted(namespace) == <<"__namespaced", ".">> \o namespace

\* line 143: the reserved key
ReservedKey(namespace) == NamespacedPrefix \o namespace

RECURSIVE Attach(_, _)
\* lines 142-144
Attach(env, own) ==
    IF own = <<>> THEN env
    ELSE Attach(Set(env, ReservedKey(Head(own).k), ToEnvString(JsonStringify(Head(own).v))),
                Tail(own))

\* lines 129-146: loadEnvConfig in host context; the new process.env, the
\* local namespacedSettings and the properties of Object it leaves
LoadHost(env, ctor) ==
    LET envPath == FindNearestEnvFile(cwd)
        loaded == DotenvConfig(env, envPath)
        st == ParseNamespacedSettings(loaded, ctor)
    IN [env |-> Attach(loaded, st.own), namespaced |-> st.own, ctor |-> st.ctor]

-----------------------------------------------------------------------------
(* The exported functions of the settings module *)

gateVars == <<log>>

\* line 178, at import: the singleton is made; in host context by a load
ModuleInit ==
    /\ pc = "import"
    /\ pc' = "ready"
    /\ IF isBrowser
       THEN /\ settings' = ObjRef(environmentSettings)
            /\ UNCHANGED <<processEnv, namespacedSettings, ctorProps, ret, lastCall, loads>>
       ELSE LET r == LoadHost(processEnv, ctorProps)
            IN /\ processEnv' = r.env
               /\ namespacedSettings' = r.namespaced
               /\ ctorProps' = r.ctor
               /\ settings' = EnvRef
               /\ ret' = [op |-> "load", val |-> r.env]
               /\ lastCall' = "load"
               /\ loads' = loads + 1
    /\ UNCHANGED <<heap, environmentSettings, world, walkVars, gateVars>>

\* lines 122-147
LoadEnvConfig ==
    /\ pc = "ready"
    /\ IF isBrowser
       THEN /\ ret' = [op |-> "load", val |-> heap[environmentSettings]]
            /\ lastCall' = "load"
            /\ UNCHANGED <<processEnv, namespacedSettings, ctorProps, loads>>
       ELSE /\ loads < MaxLoads
            /\ LET r == LoadHost(processEnv, ctorProps)
               IN /\ processEnv' = r.env
                  /\ namespacedSettings' = r.namespaced
                  /\ ctorProps' = r.ctor
                  /\ ret' = [op |-> "load", val |-> r.env]
                  /\ lastCall' = "load"
                  /\ loads' = loads + 1
    /\ UNCHANGED <<heap, environmentSettings, settings, pc, world, walkVars, gateVars>>

-----------------------------------------------------------------------------
(* Loading in host context: the inputs *)

DistinctKeys(obj) == \A i, j \in 1..Len(obj) : obj[i].k = obj[j].k => i = j

\* the objects with at most n entries, taken from a set of entries
SettingsOver(entries, n) == {obj \in SeqsUpTo(entries, n) : DistinctKeys(obj)}

\* The entries process.env and the .env file are made of: a plain key, keys
\* with one and two dots, with nothing after or before the dot, with an
\* inherited name before it, and a reserved key; empty and non-empty values
LoadEntries ==
    [k : {<<"a", ".", "b">>}, v : {<<>>, <<"v">>, <<"\"">>}]
    \cup [k : {<<"p">>, <<".", "a">>}, v : {<<>>, <<"v">>}]
    \cup [k : { <<"a", ".", "b", ".", "c">>,
                <<"a", ".">>,
                <<"constructor", ".", "b">>,
                <<"__namespaced_", "a">> },
          v : {<<"v">>}]

InitLoad ==
    /\ ctx = "host"
    /\ \E d \in Dirs : Len(d) = MaxDepth - 1 /\ cwd = DirPath(d)
    /\ \E ambient \in SettingsOver(LoadEntries, MaxEnv) :
        /\ processEnv = ambient
        /\ \/ files = <<>>
           \/ \E d \in Dirs :
              \E content \in SettingsOver(LoadEntries, MaxEnv - Len(ambient)) :
                files = (d :> content)
    /\ WalkIdle
    /\ SettingsIdle
    /\ log = <<>>

NextLoad ==
    \/ ModuleInit
    \/ LoadEnvConfig

SpecLoad == InitLoad /\ [][NextLoad]_vars

-----------------------------------------------------------------------------
(* Properties of loading in host context *)

HasDot(key) == \E i \in 1..Len(key) : key[i] = "."
FirstDot(key) == CHOOSE i \in 1..Len(key) : key[i] = "." /\ \A j \in 1..(i-1) : key[j] # "."
NamespaceOf(key) == SubSeq(key, 1, FirstDot(key) - 1)
SubKeyOf(key) == SubSeq(key, FirstDot(key) + 1, Len(key))

\* result[namespace][subKey], undefined when there is none
Inner(namespaced, namespace, subKey) ==
    IF ~HasKey(namespaced, namespace) THEN Undefined
    ELSE IF Get(namespaced, namespace).kind = "function" THEN Get(ctorProps, subKey)
    ELSE Get(Get(namespaced, namespace).props, subKey)

InnerKeys(namespaced, namespace) ==
    IF Get(namespaced, namespace).kind = "function"
    THEN {ctorProps[i].k : i \in 1..Len(ctorProps)}
    ELSE {Get(namespaced, namespace).props[i].k :
            i \in 1..Len(Get(namespaced, namespace).props)}

Loaded == ctx = "host" /\ lastCall = "load"

\* C4 as claimed: the grouping parseNamespacedSettings returned holds, for
\* every flat key with a dot, the flat value under result[text before the
\* first dot][all text after it], and holds no other entry.
C4_GroupsEveryDottedKey ==
    Loaded =>
        /\ \A i \in 1..Len(processEnv) :
            HasDot(processEnv[i].k) =>
                Inner(namespacedSettings, NamespaceOf(processEnv[i].k),
                      SubKeyOf(processEnv[i].k)) = processEnv[i].v
        /\ \A n \in 1..Len(namespacedSettings) :
            \A sub \in InnerKeys(namespacedSettings, namespacedSettings[n].k) :
                HasKey(processEnv, namespacedSettings[n].k \o <<".">> \o sub)

\* the flat keys that parseNamespacedSettings is meant to group
Grouped(e) ==
    /\ HasDot(e.k)
    /\ e.v # <<>>
    /\ NamespaceOf(e.k) # <<>>
    /\ NamespaceOf(e.k) \notin InheritedNames

\* C4 as amended: for every flat key with a dot, a value that is not empty and
\* a namespace (the text before the first dot) that is neither empty nor a
\* name objects inherit, result[namespace][all text after the first dot] is
\* the flat value; under such namespaces the result holds no other entry, and
\* no other namespace but inherited names.
C4_GroupsDottedKeysWithValue ==
    Loaded =>
        /\ \A i \in 1..Len(processEnv) :
            Grouped(processEnv[i]) =>
                Inner(namespacedSettings, NamespaceOf(processEnv[i].k),
                      SubKeyOf(processEnv[i].k)) = processEnv[i].v
        /\ \A n \in 1..Len(namespacedSettings) :
            namespacedSettings[n].k \notin InheritedNames =>
                /\ namespacedSettings[n].v.kind = "object"
                /\ InnerKeys(namespacedSettings, namespacedSettings[n].k) # {}
                /\ \A sub \in InnerKeys(namespacedSettings, namespacedSettings[n].k) :
                    \E i \in 1..Len(processEnv) :
                        /\ processEnv[i].k = namespacedSettings[n].k \o <<".">> \o sub
                        /\ Grouped(processEnv[i])

\* C4 witness: a key with two dots was grouped beside one with one dot, while
\* a key with no dot was in the flat mapping
C4_Witness ==
    /\ Loaded
    /\ Inner(namespacedSettings, <<"a">>, <<"b", ".", "c">>) = <<"v">>
    /\ Inner(namespacedSettings, <<"a">>, <<"b">>) = <<"\"">>

\* the namespaces of the flat mapping, and the group of one
DerivedNamespaces(env) ==
    {NamespaceOf(env[i].k) : i \in {j \in 1..Len(env) :
        HasDot(env[j].k) /\ env[j].v # <<>> /\ NamespaceOf(env[j].k) # <<>>}}

GroupOf(env, namespace) ==
    LET members == SelectSeq(env, LAMBDA e :
            HasDot(e.k) /\ e.v # <<>> /\ NamespaceOf(e.k) = namespace)
    IN [i \in 1..Len(members) |-> [k |-> SubKeyOf(members[i].k), v |-> members[i].v]]

IsReservedKey(env, key) == \E ns \in DerivedNamespaces(env) : key = NamespacedPrefix \o ns

\* C6: after a host-context load the flat mapping holds, for every namespace
\* of its dotted keys, the key "__namespaced_" + namespace with the JSON
\* serialization of the namespace's group, and every key the mapping had
\* before, the reserved keys aside, has kept its value.
C6_ReservedKeysHoldGroups ==
    [][loads' = loads + 1 =>
        /\ \A ns \in DerivedNamespaces(processEnv') :
            /\ HasKey(processEnv', NamespacedPrefix \o ns)
            /\ Get(processEnv', NamespacedPrefix \o ns)
                 = JsonStringify(PlainObject(GroupOf(processEnv', ns)))
        /\ \A i \in 1..Len(processEnv) :
            ~IsReservedKey(processEnv', processEnv[i].k)
                => Get(processEnv', processEnv[i].k) = processEnv[i].v]_vars

\* C7: a load that follows a load, nothing else having happened in between,
\* leaves process.env as the first load left it.
C7_LoadIdempotent ==
    [][(lastCall = "load" /\ loads' = loads + 1) => processEnv' = processEnv]_vars

\* C7 witness: two loads have run, the first of which wrote a reserved key
C7_Witness ==
    /\ Loaded
    /\ loads = 2
    /\ Get(processEnv, NamespacedPrefix \o <<"a">>)
         = <<"{", "\"", "b", "\"", ":", "\"", "v", "\"", "}">>

-----------------------------------------------------------------------------
(* configureSettings and the point lookups *)

\* obj[key]: an own property, else what Object.prototype gives
ObjectFunctionValue == <<"<function Object>">>
PropertyRead(obj, key) ==
    IF HasKey(obj, key) THEN Get(obj, key)
    ELSE IF key \in InheritedNames THEN ObjectFunctionValue
    ELSE Undefined

\* key in obj
InOperator(obj, key) == HasKey(obj, key) \/ key \in InheritedNames

\* the mapping the lookups read: lines 159-162, 171-174
CurrentMapping == IF isBrowser THEN heap[environmentSettings] ELSE processEnv

\* what a reference refers to
Deref(ref) == IF ref.t = "env" THEN processEnv ELSE heap[ref.id]

\* lines 159-162
GetEnvValue(key, defaultValue) ==
    LET v == PropertyRead(CurrentMapping, key)
    IN IF Truthy(v) THEN v ELSE defaultValue

\* lines 171-174
HasEnvValue(key) == InOperator(CurrentMapping, key)

LookupKeys == {<<"K">>, <<"a", ".", "b">>}
ProbeKeys == LookupKeys \cup {<<"MISSING">>, <<"constructor">>}
LookupValues == {<<>>, <<"v">>}
Defaults == {Undefined, <<"fallback">>}
Injected == SettingsOver([k : LookupKeys, v : LookupValues \cup {Undefined}], MaxInjected)

\* lines 112-114: a fresh object takes the place of the module variable's;
\* an object nothing refers to any more is dropped from the heap
ConfigureSettings ==
    /\ pc = "ready"
    /\ \E given \in Injected :
        LET kept == IF settings.t = "obj" THEN {settings.id} ELSE {}
            fresh == IF 0 \in kept THEN 1 ELSE 0
        IN /\ heap' = [id \in kept \cup {fresh} |-> IF id = fresh THEN given ELSE heap[id]]
           /\ environmentSettings' = fresh
    /\ ret' = NoReturn
    /\ lastCall' = "configure"
    /\ UNCHANGED <<settings, pc, namespacedSettings, ctorProps, loads, processEnv,
                   world, walkVars, gateVars>>

\* lines 155-163
GetEnvVariable ==
    /\ pc = "ready"
    /\ \E key \in ProbeKeys, defaultValue \in Defaults :
        ret' = [op |-> "get", key |-> key, def |-> defaultValue,
                val |-> GetEnvValue(key, defaultValue)]
    /\ lastCall' = "get"
    /\ UNCHANGED <<heap, environmentSettings, settings, pc, namespacedSettings, ctorProps,
                   loads, processEnv, world, walkVars, gateVars>>

\* lines 170-175
HasEnvVariable ==
    /\ pc = "ready"
    /\ \E key \in ProbeKeys :
        ret' = [op |-> "has", key |-> key, val |-> HasEnvValue(key)]
    /\ lastCall' = "has"
    /\ UNCHANGED <<heap, environmentSettings, settings, pc, namespacedSettings, ctorProps,
                   loads, processEnv, world, walkVars, gateVars>>

InitSettings ==
    /\ ctx \in {"host", "sandbox"}
    /\ cwd = <<"/">>
    /\ files \in {<<>>, (<<>> :> <<[k |-> <<"a", ".", "b">>, v |-> <<"v">>]>>)}
    /\ processEnv \in SettingsOver([k : LookupKeys, v : LookupValues], MaxEnv)
    /\ ctx = "sandbox" => (processEnv = <<>> /\ files = <<>>)
    /\ WalkIdle
    /\ SettingsIdle
    /\ log = <<>>

NextSettings ==
    \/ ModuleInit
    \/ LoadEnvConfig
    \/ ConfigureSettings
    \/ GetEnvVariable
    \/ HasEnvVariable

SpecSettings == InitSettings /\ [][NextSettings]_vars

-----------------------------------------------------------------------------
(* Properties of the lookups and of the singleton *)

\* C5: getEnvVariable(key, defaultValue) returns the stored value whenever the
\* current mapping has the key, whatever the value and the default, and the
\* default (undefined when none is given) only when it has not; and
\* hasEnvVariable(key) is false for a key the mapping has not.  (Stated for
\* the keys that are not names every object inherits.)
C5_StoredValueReturned ==
    /\ (lastCall = "get" /\ ret.key \notin InheritedNames) =>
        ret.val = IF HasKey(CurrentMapping, ret.key)
                  THEN Get(CurrentMapping, ret.key)
                  ELSE ret.def
    /\ (lastCall = "has" /\ ret.key \notin InheritedNames) =>
        (~HasKey(CurrentMapping, ret.key) => ~ret.val)

\* C10: once the module is initialized, reading a key from the exported
\* settings gives what reading it from the mapping loadEnvConfig() returns
\* gives: in host context the singleton is process.env itself, which a load
\* returns; in sandboxed context it reads as the injected settings do.
C10_SingletonServesLoader ==
    pc = "ready" =>
        IF isBrowser
        THEN \A key \in ProbeKeys :
                PropertyRead(Deref(settings), key)
                    = PropertyRead(heap[environmentSettings], key)
        ELSE settings = EnvRef

====
